---- MODULE Spec2Model ----
(***************************************************************************)
(* Browser Wellbeing Tracker API (express + mysql2 + jsonwebtoken).        *)
(*                                                                         *)
(* The server keeps no state of its own between requests: the state is the *)
(* two tables of the MySQL database, the clock, and the requests whose     *)
(* storage round trip is still in flight.  A handler runs to its first     *)
(* `await pool.query(...)` in one step (node runs it without interleaving),*)
(* the statement is executed by the database in a later step, atomically,  *)
(* and the continuation after the await runs in that step.  A storage      *)
(* fault is a rejected query that had no effect on the table.              *)
(*                                                                         *)
(* Three specifications share the variables:                               *)
(*   Spec     POST /track behind authenticateToken                         *)
(*   SpecReg  POST /register                                               *)
(*   SpecDash GET /dashboard over the tables POST /track can build         *)
(***************************************************************************)
EXTENDS Integers, Sequences, FiniteSets

VARIABLES
    time_tracking,  \* table time_tracking: sequence of rows, in storage order
    users,          \* table users: sequence of rows, in storage order
    now,            \* the clock (new Date()), in ticks
    pending,        \* /track requests awaiting pool.query: id -> request
    regs,           \* /register requests awaiting a storage round trip
    nreq,           \* number of requests received so far
    res,            \* the last response sent, with the request it answers
    acked,          \* per key: count and sum of the seconds answered 200
    created         \* per username: number of /register answers 201

vars == <<time_tracking, users, now, pending, regs, nreq, res, acked, created>>

----------------------------------------------------------------------------
\* Bounds of the model.
MaxReqs == 2        \* requests received in one behaviour
MaxNow == 2         \* last tick of the clock in Spec and SpecReg
TicksPerDay == 2    \* clock ticks in one UTC day
MaxRows == 2        \* rows of time_tracking in SpecDash

\* A JSON field or header that may be missing: <<>> or <<v>>.
Absent == <<>>
Some(v) == <<v>>
Has(o) == o # <<>>
Val(o) == o[1]

UserIds == {1, 2}
Sites == {"a.com", "b.com"}
Titles == {"A", "A2"}
Seconds == {-1, 2}

\* new Date().toISOString().slice(0, 10): the UTC calendar day of an instant.
VisitDate(t) == t \div TicksPerDay

Days == {VisitDate(t) : t \in 0..MaxNow}

Drop(f, id) == [i \in DOMAIN f \ {id} |-> f[i]]

----------------------------------------------------------------------------
\* Bearer tokens.  jwt.sign({userId}, JWT_SECRET, {expiresIn: "700h"}) makes
\* a token that carries the user id, an expiry instant and a signature.
Token(u, e, s) == [userId |-> u, exp |-> e, sig |-> s]

\* 700 hours after an issue near the start of the model's time.
FarExp == 30 * TicksPerDay

\* The tokens clients hold: two good ones, one issued long ago that expires
\* at tick 1, one signed with another secret.
Tokens ==
    { Token(1, FarExp, "secret"), Token(2, FarExp, "secret"),
      Token(1, 1, "secret"), Token(1, FarExp, "forged") }

\* jwt.verify(token, JWT_SECRET): the payload, or an error (Absent) when the
\* signature is not the secret's or the token has expired.
Verify(token, t) ==
    IF token.sig # "secret" THEN Absent
    ELSE IF t >= token.exp THEN Absent
    ELSE Some([userId |-> token.userId])

\* The Authorization header, split on " ": absent, or its words.
Headers ==
    {Absent, Some(<<"Bearer">>)} \cup {Some(<<"Bearer", tk>>) : tk \in Tokens}

\* authHeader && authHeader.split(" ")[1]
HeaderToken(header) ==
    IF Has(header) /\ Len(Val(header)) >= 2 THEN Some(Val(header)[2]) ELSE Absent

\* authenticateToken with the two statuses exchanged.
AuthStatus_swapped(header, t) ==
    IF ~Has(HeaderToken(header)) THEN 403
    ELSE IF ~Has(Verify(Val(HeaderToken(header)), t)) THEN 401
    ELSE 0

\* authenticateToken: 401 without a token, 403 when it does not verify,
\* 0 when next() is called.
AuthStatus(header, t) ==
    IF ~Has(HeaderToken(header)) THEN 401
    ELSE IF ~Has(Verify(Val(HeaderToken(header)), t)) THEN 403
    ELSE 0

\* req.user after authenticateToken called next().
ReqUser(header, t) == Val(Verify(Val(HeaderToken(header)), t))

----------------------------------------------------------------------------
\* POST /track

\* The JSON body.  The extension sends the tab's title with every report;
\* userId is a field a client may add, and the handler never reads it.
TrackBodies ==
    [website_url : {Absent, Some("")} \cup {Some(s) : s \in Sites},
     website_title : {Some(x) : x \in Titles},
     total_time_seconds : {Absent} \cup {Some(n) : n \in Seconds},
     userId : {Absent, Some(2)}]

\* The validation also refusing seconds that are not positive.
TrackInvalid_falsy(body) ==
    \/ ~Has(body.website_url)
    \/ Val(body.website_url) = ""
    \/ ~Has(body.total_time_seconds)
    \/ Val(body.total_time_seconds) <= 0

\* !website_url || total_time_seconds === undefined
TrackInvalid(body) ==
    \/ ~Has(body.website_url)
    \/ Val(body.website_url) = ""
    \/ ~Has(body.total_time_seconds)

\* The user id taken from the body when the body holds one.
TrackUserId_frombody(user, body) ==
    IF Has(body.userId) THEN Val(body.userId) ELSE user.userId

\* const userId = req.user.userId
TrackUserId(user, body) == user.userId

\* const values = [userId, website_url, website_title, visit_date, total_time_seconds]
TrackValues(user, body, t) ==
    [user_id |-> TrackUserId(user, body),
     website_url |-> Val(body.website_url),
     website_title |-> body.website_title,
     visit_date |-> VisitDate(t),
     total_time_seconds |-> Val(body.total_time_seconds)]

\* unique(user_id, website_url, visit_date)
KeyOf(row) == <<row.user_id, row.website_url, row.visit_date>>

Keys == UserIds \X Sites \X Days

RowsAt(table, k) == {i \in 1..Len(table) : KeyOf(table[i]) = k}

\* The conflict clause assigning the new seconds instead of adding them.
Upsert_overwrite(table, v) ==
    IF RowsAt(table, KeyOf(v)) = {} THEN Append(table, v)
    ELSE LET i == CHOOSE j \in RowsAt(table, KeyOf(v)) :
                      \A m \in RowsAt(table, KeyOf(v)) : j <= m
         IN [table EXCEPT ![i].total_time_seconds = v.total_time_seconds]

\* A plain INSERT, with no conflict clause.
Upsert_insert(table, v) == Append(table, v)

\* INSERT INTO time_tracking (...) VALUES (?, ?, ?, ?, ?)
\* ON DUPLICATE KEY UPDATE total_time_seconds = total_time_seconds + VALUES(total_time_seconds)
Upsert(table, v) ==
    IF RowsAt(table, KeyOf(v)) = {} THEN Append(table, v)
    ELSE LET i == CHOOSE j \in RowsAt(table, KeyOf(v)) :
                      \A m \in RowsAt(table, KeyOf(v)) : j <= m
         IN [table EXCEPT ![i].total_time_seconds = @ + v.total_time_seconds]

NoAck == [k \in Keys |-> [n |-> 0, sum |-> 0, conc |-> FALSE]]

NoValues ==
    [user_id |-> 0, website_url |-> "", website_title |-> Absent,
     visit_date |-> 0, total_time_seconds |-> 0]

NoUser == [userId |-> 0]

\* What the request presented when it arrived: whether it carried a token,
\* whether the token was signed with the secret, whether it had expired.
Presented(header, t) ==
    [token |-> Has(HeaderToken(header)),
     signed |-> Has(HeaderToken(header)) /\ Val(HeaderToken(header)).sig = "secret",
     expired |-> Has(HeaderToken(header)) /\ t >= Val(HeaderToken(header)).exp]

NoAuth == [token |-> FALSE, signed |-> FALSE, expired |-> FALSE]

\* The response sent, and what it answers: what the request presented, the
\* payload of its token and the body fields the handler read (when it ran),
\* the statement's values (when it issued one), and whether the record of
\* the statement's key existed when the request arrived.
Respond(status, auth, user, url, secs, values, existed) ==
    res' = [n |-> res.n + 1, status |-> status, auth |-> auth, user |-> user,
            website_url |-> url, total_time_seconds |-> secs, values |-> values,
            existed |-> existed]

NoRes == [n |-> 0, status |-> 0, auth |-> NoAuth, user |-> NoUser,
          website_url |-> Absent, total_time_seconds |-> Absent,
          values |-> NoValues, existed |-> FALSE]

\* A request arrives: authenticateToken, then the handler up to its await.
TrackRequest(header, body) ==
    /\ nreq < MaxReqs
    /\ nreq' = nreq + 1
    /\ UNCHANGED <<time_tracking, users, now, regs, acked, created>>
    /\ IF AuthStatus(header, now) # 0
       THEN /\ Respond(AuthStatus(header, now), Presented(header, now),
                       NoUser, Absent, Absent, NoValues, FALSE)
            /\ UNCHANGED pending
       ELSE IF TrackInvalid(body)
       THEN /\ Respond(400, Presented(header, now), ReqUser(header, now),
                       body.website_url, body.total_time_seconds, NoValues,
                       FALSE)
            /\ UNCHANGED pending
       ELSE /\ pending' =
                 [i \in DOMAIN pending \cup {nreq + 1} |->
                    IF i \in DOMAIN pending THEN pending[i]
                    ELSE [auth |-> Presented(header, now),
                          user |-> ReqUser(header, now),
                          values |-> TrackValues(ReqUser(header, now), body, now),
                          existed |->
                              RowsAt(time_tracking,
                                     KeyOf(TrackValues(ReqUser(header, now),
                                                       body, now))) # {}]]
            /\ UNCHANGED res

\* The database executes the statement; the handler answers 200.
TrackQuery(id) ==
    /\ id \in DOMAIN pending
    /\ LET p == pending[id]
           k == KeyOf(p.values)
       IN /\ time_tracking' = Upsert(time_tracking, p.values)
          /\ Respond(200, p.auth, p.user, Some(p.values.website_url),
                     Some(p.values.total_time_seconds), p.values, p.existed)
          /\ acked' = [acked EXCEPT ![k] =
                         [n |-> @.n + 1,
                          sum |-> @.sum + p.values.total_time_seconds,
                          conc |-> @.conc \/ \E j \in DOMAIN pending \ {id} :
                                      KeyOf(pending[j].values) = k]]
    /\ pending' = Drop(pending, id)
    /\ UNCHANGED <<users, now, regs, nreq, created>>

\* pool.query rejects; the catch block answers 500.
TrackFault(id) ==
    /\ id \in DOMAIN pending
    /\ LET p == pending[id]
       IN Respond(500, p.auth, p.user, Some(p.values.website_url),
                  Some(p.values.total_time_seconds), p.values, p.existed)
    /\ pending' = Drop(pending, id)
    /\ UNCHANGED <<time_tracking, users, now, regs, nreq, acked, created>>

\* Time passes.
Tick ==
    /\ now < MaxNow
    /\ now' = now + 1
    /\ UNCHANGED <<time_tracking, users, pending, regs, nreq, res, acked, created>>

Init ==
    /\ time_tracking = <<>>
    /\ users = <<>>
    /\ now = 0
    /\ pending = <<>>
    /\ regs = <<>>
    /\ nreq = 0
    /\ res = NoRes
    /\ acked = NoAck
    /\ created = <<>>

Next ==
    \/ \E header \in Headers, body \in TrackBodies : TrackRequest(header, body)
    \/ \E id \in DOMAIN pending : TrackQuery(id)
    \/ \E id \in DOMAIN pending : TrackFault(id)
    \/ Tick

Spec == Init /\ [][Next]_vars

----------------------------------------------------------------------------
\* Properties of POST /track, checked under Spec.

InFlight(k) == {id \in DOMAIN pending : KeyOf(pending[id].values) = k}

\* res' is the answer to a request sent in this step.
Answered == res'.n # res.n

\* C1: once every concurrent POST /track for a (user, site, day) key has been
\* answered, the key's stored total_time_seconds is the sum of the seconds of
\* the requests answered 200, whatever the order the database ran them in;
\* a key with no request answered 200 has no record.
C1_ConcurrentSum ==
    \A k \in Keys :
        InFlight(k) = {} =>
            /\ (acked[k].n = 0) = (RowsAt(time_tracking, k) = {})
            /\ \A i \in RowsAt(time_tracking, k) :
                   time_tracking[i].total_time_seconds = acked[k].sum

\* Two requests for one key were in flight together and both were answered 200.
C1_Witness ==
    \E k \in Keys : acked[k].n >= 2 /\ acked[k].conc /\ InFlight(k) = {}

C2_Unique ==
    \A i, j \in 1..Len(time_tracking) :
        KeyOf(time_tracking[i]) = KeyOf(time_tracking[j]) => i = j

C2_Step ==
    IF Answered /\ res'.status = 200
    THEN LET k == KeyOf(res'.values)
         IN IF RowsAt(time_tracking, k) = {}
            THEN /\ Len(time_tracking') = Len(time_tracking) + 1
                 /\ Cardinality(RowsAt(time_tracking', k)) = 1
                 /\ \A i \in RowsAt(time_tracking', k) :
                        time_tracking'[i].total_time_seconds =
                            Val(res'.total_time_seconds)
            ELSE Len(time_tracking') = Len(time_tracking)
    ELSE Len(time_tracking') = Len(time_tracking)

\* C2: time_tracking never holds two records with the same (user_id,
\* website_url, visit_date); a track answered 200 for a key without a record
\* adds exactly one record, holding the request's seconds, and a track for a
\* key with a record adds none.
C2_OneRecordPerKey == []C2_Unique /\ [][C2_Step]_vars

\* A second track for a key was answered 200 and the key has one record.
C2_Witness ==
    \E k \in Keys :
        /\ acked[k].n >= 2
        /\ Cardinality(RowsAt(time_tracking, k)) = 1
        /\ res.status = 200

\* C3: a track answered 200 that arrived after an earlier track had stored
\* the key's record (seconds s1, title t1) leaves the record with the old
\* duration plus its own seconds (s1 + s2), and with its own title t2 when
\* it supplies one, the old title t1 otherwise.
C3_SecondTrack ==
    [][ (Answered /\ res'.status = 200 /\ res'.existed) =>
          \A i \in RowsAt(time_tracking, KeyOf(res'.values)) :
              /\ time_tracking'[i].total_time_seconds =
                     time_tracking[i].total_time_seconds
                         + Val(res'.total_time_seconds)
              /\ time_tracking'[i].website_title =
                     IF Has(res'.values.website_title)
                     THEN res'.values.website_title
                     ELSE time_tracking[i].website_title ]_vars

\* C4: every stored total_time_seconds is a non-negative integer.
C4_NonNegative ==
    \A i \in 1..Len(time_tracking) : time_tracking[i].total_time_seconds \in Nat

\* The request presented a token that verifies.
Good(auth) == auth.token /\ auth.signed /\ ~auth.expired

\* The request lacks a website_url (absent or empty) or total_time_seconds.
MissingField(r) ==
    \/ ~Has(r.website_url)
    \/ Val(r.website_url) = ""
    \/ ~Has(r.total_time_seconds)

HandlerRan(r) == r.n > 0 /\ r.status \notin {401, 403}

C5_Status == HandlerRan(res) => ((res.status = 400) = MissingField(res))

C5_Step ==
    (Answered /\ res'.status = 400) =>
        /\ time_tracking' = time_tracking
        /\ pending' = pending

\* C5: an authenticated POST /track is answered 400 exactly when its
\* website_url is absent or empty or its total_time_seconds is absent, and a
\* request answered 400 issues no statement and changes no record.
C5_Validation == []C5_Status /\ [][C5_Step]_vars

\* An authenticated request without total_time_seconds was answered 400.
C5_Witness ==
    /\ res.status = 400
    /\ Good(res.auth)
    /\ Has(res.website_url)
    /\ Val(res.website_url) # ""
    /\ ~Has(res.total_time_seconds)

C6_Status ==
    /\ res.n > 0 =>
          /\ ~res.auth.token => res.status = 401
          /\ (res.auth.token /\ ~Good(res.auth)) => res.status = 403
          /\ res.status \notin {401, 403} => Good(res.auth)
    /\ \A id \in DOMAIN pending : Good(pending[id].auth)

C6_Step ==
    (Answered /\ res'.status \in {401, 403}) =>
        /\ time_tracking' = time_tracking
        /\ pending' = pending

\* C6: POST /track without a bearer token is answered 401 and with a token
\* that does not verify 403; neither runs the handler (no statement is
\* issued, no record changes), and the handler runs only for a token that
\* verified.
C6_Auth == []C6_Status /\ [][C6_Step]_vars

\* A request carrying an expired token was answered 403 after records exist.
C6_Witness ==
    /\ res.status = 403
    /\ res.auth.signed
    /\ res.auth.expired
    /\ Len(time_tracking) > 0

\* C10: a track answered 200 changes only the record keyed by the token's
\* user id, the request's website_url and the day the request arrived on;
\* a userId in the body selects nothing.
C10_Frame ==
    [][ (Answered /\ res'.status = 200) =>
          LET k == <<res'.user.userId, Val(res'.website_url),
                     res'.values.visit_date>>
          IN /\ Len(time_tracking') \in {Len(time_tracking), Len(time_tracking) + 1}
             /\ \A i \in 1..Len(time_tracking) :
                    KeyOf(time_tracking[i]) # k =>
                        time_tracking'[i] = time_tracking[i]
             /\ \A i \in 1..Len(time_tracking') :
                    i > Len(time_tracking) => KeyOf(time_tracking'[i]) = k ]_vars

\* A track was answered 200 while records of another user, site or day exist.
C10_Witness ==
    /\ res.status = 200
    /\ \E i \in 1..Len(time_tracking) :
           KeyOf(time_tracking[i]) # KeyOf(res.values)
    /\ \E i \in 1..Len(time_tracking) :
           KeyOf(time_tracking[i]) = KeyOf(res.values)

----------------------------------------------------------------------------
\* POST /register

Usernames == {"ann", "bob"}
Passwords == {"pw1", "pw2"}
Salts == {1, 2}

RegBodies ==
    [username : {Absent, Some("")} \cup {Some(u) : u \in Usernames},
     password : {Absent, Some("")} \cup {Some(w) : w \in Passwords}]

\* !username || !password
RegInvalid(body) ==
    \/ ~Has(body.username)
    \/ Val(body.username) = ""
    \/ ~Has(body.password)
    \/ Val(body.password) = ""

\* bcrypt.hash(password, saltRounds): the password under a fresh random salt.
Hash(password, salt) == <<password, salt>>

\* SELECT id FROM users WHERE username = ?
SelectUser(table, username) ==
    {i \in 1..Len(table) : table[i].username = username}

\* users(username unique): the INSERT fails with ER_DUP_ENTRY when a row
\* holds the username.
DupEntry(table, username) ==
    \E i \in 1..Len(table) : table[i].username = username

\* The handler going on without looking at the SELECT's rows.
SelectStatus_ignore(existingUser) == 0

\* if (existingUser.length > 0) return res.status(409); 0: the handler goes on.
SelectStatus(existingUser) == IF existingUser # {} THEN 409 ELSE 0

\* 201 sent whether or not the INSERT threw.
InsertStatus_always201(failed) == 201

\* res.status(201) after the INSERT, 500 from the catch block when it threw.
InsertStatus(failed) == IF failed THEN 500 ELSE 201

NoCreated == [u \in Usernames |-> 0]

\* The response sent and the request it answers; late: a 201 for the
\* request's username had been sent before the request arrived; err: what
\* the storage layer threw, if anything.
RegRespond(status, username, password, late, err) ==
    res' = [n |-> res.n + 1, status |-> status, username |-> username,
            password |-> password, late |-> late, err |-> err]

NoRegRes == [n |-> 0, status |-> 0, username |-> Absent, password |-> Absent,
             late |-> FALSE, err |-> ""]

\* A request arrives: validation, then the SELECT is issued.
RegisterRequest(body) ==
    /\ nreq < MaxReqs
    /\ nreq' = nreq + 1
    /\ UNCHANGED <<time_tracking, users, now, pending, acked, created>>
    /\ IF RegInvalid(body)
       THEN /\ RegRespond(400, body.username, body.password, FALSE, "")
            /\ UNCHANGED regs
       ELSE /\ regs' =
                 [i \in DOMAIN regs \cup {nreq + 1} |->
                    IF i \in DOMAIN regs THEN regs[i]
                    ELSE [pc |-> "select",
                          username |-> Val(body.username),
                          password |-> Val(body.password),
                          password_hash |-> Absent,
                          late |-> created[Val(body.username)] > 0]]
            /\ UNCHANGED res

\* The database answers the SELECT: 409 when the username has a row, else
\* the password is hashed and the INSERT is issued.
RegisterSelect(id, salt) ==
    /\ id \in DOMAIN regs
    /\ regs[id].pc = "select"
    /\ LET r == regs[id]
           st == SelectStatus(SelectUser(users, r.username))
       IN IF st # 0
          THEN /\ RegRespond(st, Some(r.username), Some(r.password), r.late, "")
               /\ regs' = Drop(regs, id)
          ELSE /\ regs' = [regs EXCEPT ![id].pc = "insert",
                                       ![id].password_hash =
                                           Some(Hash(r.password, salt))]
               /\ UNCHANGED res
    /\ UNCHANGED <<time_tracking, users, now, pending, nreq, acked, created>>

\* The database executes the INSERT; the handler answers 201 with the new
\* row's id, or 500 when the INSERT threw.
RegisterInsert(id) ==
    /\ id \in DOMAIN regs
    /\ regs[id].pc = "insert"
    /\ LET r == regs[id]
           failed == DupEntry(users, r.username)
           st == InsertStatus(failed)
       IN /\ users' =
                 IF failed THEN users
                 ELSE Append(users, [id |-> Len(users) + 1,
                                     username |-> r.username,
                                     password_hash |-> Val(r.password_hash)])
          /\ RegRespond(st, Some(r.username), Some(r.password), r.late,
                        IF failed THEN "ER_DUP_ENTRY" ELSE "")
          /\ created' = IF st = 201
                        THEN [created EXCEPT ![r.username] = @ + 1]
                        ELSE created
    /\ regs' = Drop(regs, id)
    /\ UNCHANGED <<time_tracking, now, pending, nreq, acked>>

\* pool.query rejects (either statement); the catch block answers 500.
RegisterFault(id) ==
    /\ id \in DOMAIN regs
    /\ LET r == regs[id]
       IN RegRespond(500, Some(r.username), Some(r.password), r.late, "fault")
    /\ regs' = Drop(regs, id)
    /\ UNCHANGED <<time_tracking, users, now, pending, nreq, acked, created>>

InitReg ==
    /\ time_tracking = <<>>
    /\ users = <<>>
    /\ now = 0
    /\ pending = <<>>
    /\ regs = <<>>
    /\ nreq = 0
    /\ res = NoRegRes
    /\ acked = NoAck
    /\ created = NoCreated

NextReg ==
    \/ \E body \in RegBodies : RegisterRequest(body)
    \/ \E id \in DOMAIN regs, salt \in Salts : RegisterSelect(id, salt)
    \/ \E id \in DOMAIN regs : RegisterInsert(id)
    \/ \E id \in DOMAIN regs : RegisterFault(id)

SpecReg == InitReg /\ [][NextReg]_vars

----------------------------------------------------------------------------
\* Properties of POST /register, checked under SpecReg.

C7_Step ==
    (Answered /\ res'.late) =>
        /\ users' = users
        /\ res'.status # 201

\* C7 as stated: every POST /register for a username (with a password) that
\* arrives after a 201 for that username is answered 409, adds no users row
\* and leaves the stored rows unchanged.
C7_Always409 == [](res.late => res.status = 409) /\ [][C7_Step]_vars

\* C7 amended: such a request is answered 409, or 500 when the existence
\* query fails; it is never answered 201, adds no users row and leaves every
\* stored row, the password hash of the username included, unchanged.
C7_SecondRegister ==
    [](res.late => (res.status = 409 \/ (res.status = 500 /\ res.err = "fault")))
        /\ [][C7_Step]_vars

\* A second registration of a registered username, with another password,
\* was answered 409.
C7_Witness ==
    /\ res.late
    /\ res.status = 409
    /\ \E i \in 1..Len(users) :
           /\ users[i].username = Val(res.username)
           /\ users[i].password_hash[1] # Val(res.password)

C9_State ==
    /\ \A i, j \in 1..Len(users) :
           users[i].username = users[j].username => i = j
    /\ \A u \in Usernames : created[u] <= 1

C9_Step ==
    Answered =>
        IF res'.status = 201
        THEN /\ Len(users') = Len(users) + 1
             /\ users'[Len(users')].username = Val(res'.username)
        ELSE /\ res'.status \in {400, 409, 500}
             /\ users' = users

\* C9: however concurrent POST /register requests for one username
\* interleave their existence check and their insert, users never holds two
\* rows with the username, at most one request is answered 201, and every
\* other request is answered with an error status and creates no user.
C9_ConcurrentRegister == []C9_State /\ [][C9_Step]_vars

\* Two requests for one username both passed the existence check; one was
\* answered 201 and the other's INSERT was refused.
C9_Witness ==
    /\ res.err = "ER_DUP_ENTRY"
    /\ res.status = 500
    /\ created[Val(res.username)] = 1

----------------------------------------------------------------------------
\* GET /dashboard?range={today|week}

Ranges == {Absent, Some("today"), Some("week"), Some("month")}

\* Day 0 is Thursday 1970-01-01: days 3, 4, 5 are a Sunday, the Monday that
\* starts the next ISO week, and its Tuesday.
DashDays == {3, 4, 5}
\* The first instant of the Monday and the last instant of the Tuesday.
DashNows == {4 * TicksPerDay, 6 * TicksPerDay - 1}
DashSeconds == {1, 2}

DashRowSet ==
    [user_id : UserIds, website_url : Sites, website_title : {Some("A")},
     visit_date : DashDays, total_time_seconds : DashSeconds]

RECURSIVE TablesOfLen(_)
\* The tables of n rows POST /track can have built: no two rows share a key.
TablesOfLen(n) ==
    IF n = 0 THEN {<<>>}
    ELSE {Append(t, r) : t \in TablesOfLen(n - 1), r \in DashRowSet}

DashTables ==
    {t \in UNION {TablesOfLen(n) : n \in 0..MaxRows} :
        \A i, j \in 1..Len(t) : KeyOf(t[i]) = KeyOf(t[j]) => i = j}

\* The Sunday-start week a day falls in.
WeekOf_sunday(d) == (d + 4) \div 7

\* The Monday-start ISO week a day falls in.
WeekOf(d) == (d + 3) \div 7

\* today: the current day; week: the current ISO week; anything else: today.
InWindow(d, range, today) ==
    IF range = Some("week") THEN WeekOf(d) = WeekOf(today) ELSE d = today

\* WHERE user_id = ? AND <visit_date in the window>
DashRows(table, u, range, today) ==
    {i \in 1..Len(table) :
        table[i].user_id = u /\ InWindow(table[i].visit_date, range, today)}

RECURSIVE SumRows(_, _)
SumRows(table, idx) ==
    IF idx = {} THEN 0
    ELSE LET i == CHOOSE j \in idx : TRUE
         IN table[i].total_time_seconds + SumRows(table, idx \ {i})

\* SUM(total_time_seconds) ... GROUP BY website_url
SiteTotal(table, idx, s) ==
    SumRows(table, {i \in idx : table[i].website_url = s})

FirstRow(table, idx, s) ==
    CHOOSE i \in idx :
        /\ table[i].website_url = s
        /\ \A j \in idx : table[j].website_url = s => i <= j

\* ORDER BY total_time DESC, ties in storage order.
DashBefore(table, idx, s, t) ==
    \/ SiteTotal(table, idx, s) > SiteTotal(table, idx, t)
    \/ /\ SiteTotal(table, idx, s) = SiteTotal(table, idx, t)
       /\ FirstRow(table, idx, s) < FirstRow(table, idx, t)

\* The list of {website_url, total_time} the query returns.
DashResult(table, u, range, today) ==
    LET idx == DashRows(table, u, range, today)
        sites == {table[i].website_url : i \in idx}
    IN [p \in 1..Cardinality(sites) |->
          LET s == CHOOSE x \in sites :
                     Cardinality({y \in sites : DashBefore(table, idx, y, x)}) = p - 1
          IN [website_url |-> s, total_time |-> SiteTotal(table, idx, s)]]

\* The response sent, and the request it answers.
DashRespond(status, user, range, rows) ==
    res' = [status |-> status, user |-> user, range |-> range, rows |-> rows]

NoDashRes == [status |-> 0, user |-> NoUser, range |-> Absent, rows |-> <<>>]

\* authenticateToken, then the aggregate query and its answer.
Dashboard(header, range) ==
    /\ IF AuthStatus(header, now) # 0
       THEN DashRespond(AuthStatus(header, now), NoUser, Absent, <<>>)
       ELSE DashRespond(200, ReqUser(header, now), range,
                        DashResult(time_tracking, ReqUser(header, now).userId,
                                   range, VisitDate(now)))
    /\ UNCHANGED <<time_tracking, users, now, pending, regs, nreq, acked, created>>

InitDash ==
    /\ time_tracking \in DashTables
    /\ users = <<>>
    /\ now \in DashNows
    /\ pending = <<>>
    /\ regs = <<>>
    /\ nreq = 0
    /\ res = NoDashRes
    /\ acked = NoAck
    /\ created = NoCreated

NextDash == \E header \in Headers, range \in Ranges : Dashboard(header, range)

SpecDash == InitDash /\ [][NextDash]_vars

----------------------------------------------------------------------------
\* Properties of GET /dashboard, checked under SpecDash.

\* The days of the window a range selects on the current day: the day itself,
\* or the seven days from the Monday on or before it.
WindowDays(range, today) ==
    IF range = Some("week")
    THEN LET monday == today - ((today + 3) % 7) IN monday..(monday + 6)
    ELSE {today}

\* The seconds the user's record for a site and day holds, 0 without one.
StoredSeconds(u, s, d) ==
    IF RowsAt(time_tracking, <<u, s, d>>) = {} THEN 0
    ELSE time_tracking[CHOOSE i \in RowsAt(time_tracking, <<u, s, d>>) : TRUE]
             .total_time_seconds

RECURSIVE SumOverDays(_, _, _)
SumOverDays(u, s, days) ==
    IF days = {} THEN 0
    ELSE LET d == CHOOSE x \in days : TRUE
         IN StoredSeconds(u, s, d) + SumOverDays(u, s, days \ {d})

\* C8: GET /dashboard answers an authenticated user with one entry per site
\* the user has a record for in the window, holding the sum of the user's
\* stored seconds for the site over the window's days, in descending order of
\* that sum; the window is the current day, or for range=week the
\* Monday-start week of the current day; no record in the window, empty list.
C8_Dashboard ==
    res.status = 200 =>
        LET u == res.user.userId
            win == WindowDays(res.range, VisitDate(now))
            visited == {s \in Sites :
                          \E d \in win : RowsAt(time_tracking, <<u, s, d>>) # {}}
            out == res.rows
        IN /\ Len(out) = Cardinality(visited)
           /\ {out[i].website_url : i \in 1..Len(out)} = visited
           /\ \A i \in 1..Len(out) :
                  out[i].total_time = SumOverDays(u, out[i].website_url, win)
           /\ \A i, j \in 1..Len(out) :
                  i < j => out[i].total_time >= out[j].total_time

\* A week query summed a site's records of the Monday and the Tuesday.
C8_Witness ==
    /\ res.status = 200
    /\ res.range = Some("week")
    /\ Len(res.rows) = 1
    /\ res.rows[1].total_time = 3
    /\ Len(time_tracking) = 2

====
